---------------------------- MODULE Spec2Model ----------------------------
(***************************************************************************)
(* A model of dynamiqs' time-dependent operator abstraction                *)
(* (src/dynamiqs/time_array.py: totime, the TimeArray variants and their   *)
(* algebra) and of the Lindbladian evaluator                               *)
(* (src/dynamiqs/mesolve/me_solver.py: MESolver).                          *)
(*                                                                         *)
(* Arrays are records [shape, data, dtype]: `shape` is the tuple of        *)
(* dimensions, `data` the entries in row-major order, `dtype` the element  *)
(* type.  Entries are integers (the inputs are drawn from arrays with      *)
(* integral real entries).  A raised exception is a record [err |-> kind]; *)
(* an operation applied to a raised exception propagates it.  Times are    *)
(* integers.  A user callable t -> array is represented by its graph over  *)
(* the time domain, so a lambda composed by the code is the function that  *)
(* the lambda computes, errors at call time included.                      *)
(***************************************************************************)
EXTENDS Integers, Sequences, FiniteSets, TLC

\* ------------------------------------------------------------------ bounds
\* Largest query time / breakpoint; query times range over -1..MaxTime.
MaxTime == 3
\* Number of algebraic operations applied to one TimeArray.
MaxOps == 2
\* Number of evaluator calls in one run of the Lindbladian evaluator.
MaxCalls == 3

Times == -1..MaxTime

\* ------------------------------------------------------------- exceptions
Raise(kind) == [err |-> kind]
IsErr(a) == "err" \in DOMAIN a

\* ------------------------------------------------------------------ arrays
Max2(a, b) == IF a >= b THEN a ELSE b
Min2(a, b) == IF a <= b THEN a ELSE b

RECURSIVE Prod(_)
Prod(s) == IF s = <<>> THEN 1 ELSE Head(s) * Prod(Tail(s))

\* The multi-index (0-based) of flat position i (0-based) in `shape`.
RECURSIVE Unravel(_, _)
Unravel(i, shape) ==
    IF shape = <<>> THEN <<>>
    ELSE LET rest == Prod(Tail(shape))
         IN  <<i \div rest>> \o Unravel(i % rest, Tail(shape))

\* The flat position (0-based) of multi-index idx in `shape`.
RECURSIVE Ravel(_, _)
Ravel(idx, shape) ==
    IF shape = <<>> THEN 0
    ELSE Head(idx) * Prod(Tail(shape)) + Ravel(Tail(idx), Tail(shape))

Arr(shape, data, dtype) == [shape |-> shape, data |-> data, dtype |-> dtype]

\* dtype promotion of a binary operation.
Promote(d1, d2) == IF d1 = "complex64" \/ d2 = "complex64" THEN "complex64"
                   ELSE "float32"

\* numpy broadcasting of two shapes; <<-1>> when they are incompatible.
BroadcastShapes(s1, s2) ==
    LET r == Max2(Len(s1), Len(s2))
        d1(k) == IF k > r - Len(s1) THEN s1[k - (r - Len(s1))] ELSE 1
        d2(k) == IF k > r - Len(s2) THEN s2[k - (r - Len(s2))] ELSE 1
        ok == \A k \in 1..r : d1(k) = d2(k) \/ d1(k) = 1 \/ d2(k) = 1
    IN  IF ok THEN [k \in 1..r |-> IF d1(k) = 1 THEN d2(k) ELSE d1(k)]
        ELSE <<-1>>

\* The entry of `a` that lands at flat position i of the broadcast `shape`.
BroadcastAt(a, shape, i) ==
    LET off == Len(shape) - Len(a.shape)
        m == Unravel(i, shape)
        j == [d \in 1..Len(a.shape) |-> IF a.shape[d] = 1 THEN 0 ELSE m[d + off]]
    IN  a.data[Ravel(j, a.shape) + 1]

\* a + b, elementwise with broadcasting.
Add(a, b) ==
    IF IsErr(a) THEN a ELSE IF IsErr(b) THEN b
    ELSE LET s == BroadcastShapes(a.shape, b.shape)
         IN  IF s = <<-1>> THEN Raise("broadcast")
             ELSE Arr(s, [i \in 1..Prod(s) |->
                          BroadcastAt(a, s, i - 1) + BroadcastAt(b, s, i - 1)],
                      Promote(a.dtype, b.dtype))

\* a * b, elementwise with broadcasting.
Mul(a, b) ==
    IF IsErr(a) THEN a ELSE IF IsErr(b) THEN b
    ELSE LET s == BroadcastShapes(a.shape, b.shape)
         IN  IF s = <<-1>> THEN Raise("broadcast")
             ELSE Arr(s, [i \in 1..Prod(s) |->
                          BroadcastAt(a, s, i - 1) * BroadcastAt(b, s, i - 1)],
                      Promote(a.dtype, b.dtype))

\* -a.
Negate(a) ==
    IF IsErr(a) THEN a
    ELSE Arr(a.shape, [i \in 1..Len(a.data) |-> -a.data[i]], a.dtype)

\* a.reshape(*shape): same entries in the same order, a new shape.
Reshape(a, shape) ==
    IF IsErr(a) THEN a
    ELSE IF Prod(shape) = Len(a.data) THEN Arr(shape, a.data, a.dtype)
    ELSE Raise("reshape")

\* jnp.zeros_like(a).
ZerosLike(a) ==
    IF IsErr(a) THEN a
    ELSE Arr(a.shape, [i \in 1..Len(a.data) |-> 0], a.dtype)

\* jnp.asarray(a, dtype=dtype).
AsArray(a, dtype) == Arr(a.shape, a.data, dtype)

\* a[..., idx]: the index is clamped to the axis (jax retrieval semantics).
TakeLast(a, idx) ==
    LET n == a.shape[Len(a.shape)]
        k == Max2(0, Min2(idx, n - 1))
        s == SubSeq(a.shape, 1, Len(a.shape) - 1)
    IN  Arr(s, [i \in 1..Prod(s) |-> a.data[(i - 1) * n + k + 1]], a.dtype)

\* a[k] on the leading axis (0-based k).
TakeFirst(a, k) ==
    LET s == Tail(a.shape)
        n == Prod(s)
    IN  Arr(s, [i \in 1..n |-> a.data[k * n + i]], a.dtype)

\* jnp.stack(xs, axis=-1): all operands must have one shape.
Stack(xs) ==
    IF \E i \in 1..Len(xs) : IsErr(xs[i])
    THEN xs[CHOOSE i \in 1..Len(xs) : IsErr(xs[i])]
    ELSE IF \E i \in 1..Len(xs) : xs[i].shape # xs[1].shape THEN Raise("stack")
    ELSE LET nf == Len(xs)
             s == xs[1].shape \o <<nf>>
         IN  Arr(s, [i \in 1..Prod(s) |-> xs[((i - 1) % nf) + 1].data[((i - 1) \div nf) + 1]],
                 xs[1].dtype)

RECURSIVE SumTo(_, _)
SumTo(f, n) == IF n = 0 THEN 0 ELSE f[n] + SumTo(f, n - 1)

\* a.sum(-3): the third axis from the end is summed out.
SumAxis3(a) ==
    IF IsErr(a) THEN a
    ELSE LET r == Len(a.shape)
             nf == a.shape[r - 2]
             s == SubSeq(a.shape, 1, r - 3) \o SubSeq(a.shape, r - 1, r)
             inner == a.shape[r - 1] * a.shape[r]
         IN  Arr(s, [i \in 1..Prod(s) |->
                     LET b == (i - 1) \div inner
                         e == (i - 1) % inner
                     IN  SumTo([j \in 1..nf |-> a.data[b * nf * inner + (j - 1) * inner + e + 1]], nf)],
                 a.dtype)

\* jnp.concatenate((a, b)) on the leading axis.
Concatenate(a, b) ==
    Arr(<<a.shape[1] + b.shape[1]>> \o Tail(a.shape), a.data \o b.data,
        Promote(a.dtype, b.dtype))

\* ------------------------------------------------------- python objects
\* The Python type of a value: arrays are jax Arrays, TimeArrays carry `kind`,
\* every other object carries `py`.
PyType(v) == IF "err" \in DOMAIN v THEN "Exception"
             ELSE IF "py" \in DOMAIN v THEN v.py
             ELSE IF "kind" \in DOMAIN v THEN v.kind
             ELSE "Array"

IsTuple(v) == PyType(v) = "tuple"
IsCallable(v) == PyType(v) = "function"
IsArray(v) == PyType(v) = "Array"
IsTimeArray(v) == "kind" \in DOMAIN v

\* isinstance(v, get_args(ArrayLike)): lists and arrays.
IsArrayLike(v) == PyType(v) \in {"Array", "list"}

NotImplemented == [py |-> "NotImplementedType"]

\* jnp.asarray(v, dtype=dtype) of an arbitrary object.
ToArray(v, dtype) ==
    IF IsArray(v) THEN AsArray(v, dtype)
    ELSE IF PyType(v) = "list" THEN AsArray(v.value, dtype)
    ELSE Raise("TypeError: not convertible to an array")

\* dtype_complex_to_real: the real dtype of the times and of a real f0.
RealDtype(dtype) == IF dtype = "complex64" THEN "float32" ELSE dtype

\* ------------------------------------------------------------------ factors
\* idx = jnp.searchsorted(times, t, side='right'): a binary search for the
\* number of entries <= t.
RECURSIVE Bisect(_, _, _, _)
Bisect(a, v, lo, hi) ==
    IF lo >= hi THEN lo
    ELSE LET mid == (lo + hi) \div 2
         IN  IF v < a[mid + 1] THEN Bisect(a, v, lo, mid)
             ELSE Bisect(a, v, mid + 1, hi)

searchsorted(a, v) == Bisect(a, v, 0, Len(a))

\* _PWCFactor(times, values): nv is the TRAILING dimension of values.
_PWCFactor(times, values) ==
    IF IsErr(values) THEN values
    ELSE [factor |-> "pwc", times |-> times, values |-> values,
          nv |-> values.shape[Len(values.shape)]]

_ModulatedFactor(f, f0) ==
    IF IsErr(f0) THEN f0
    ELSE [factor |-> "modulated", f |-> f, f0 |-> f0]

_PWCFactor_shape(self) == SubSeq(self.values.shape, 1, Len(self.values.shape) - 1)

_ModulatedFactor_shape(self) == self.f0.shape

Factor_shape(self) ==
    IF self.factor = "pwc" THEN _PWCFactor_shape(self) ELSE _ModulatedFactor_shape(self)

_PWCFactor_call(self, t) ==
    IF t < self.times[1] \/ t >= self.times[Len(self.times)]
    THEN ZerosLike(TakeLast(self.values, 0))
    ELSE TakeLast(self.values, searchsorted(self.times, t) - 1)

_ModulatedFactor_call(self, t) == Reshape(self.f[t], _ModulatedFactor_shape(self))

Factor_call(self, t) ==
    IF self.factor = "pwc" THEN _PWCFactor_call(self, t) ELSE _ModulatedFactor_call(self, t)

_PWCFactor_reshape(self, args) ==
    _PWCFactor(self.times, Reshape(self.values, args \o <<self.nv>>))

_ModulatedFactor_reshape(self, args) ==
    _ModulatedFactor(self.f, Reshape(self.f0, args))

Factor_reshape(self, args) ==
    IF self.factor = "pwc" THEN _PWCFactor_reshape(self, args)
    ELSE _ModulatedFactor_reshape(self, args)

\* --------------------------------------------------------------- TimeArrays
ConstantTimeArray(x) ==
    IF IsErr(x) THEN x ELSE [kind |-> "ConstantTimeArray", x |-> x]

CallableTimeArray(f, f0) ==
    IF IsErr(f0) THEN f0 ELSE [kind |-> "CallableTimeArray", f |-> f, f0 |-> f0]

\* unique left out: the concatenated times as they come.
unique_missing(s) == s

\* jnp.unique(jnp.concatenate(xs)): the sorted sequence of the distinct entries.
RECURSIVE SortedSeq(_)
SortedSeq(S) ==
    IF S = {} THEN <<>>
    ELSE LET m == CHOOSE v \in S : \A w \in S : v <= w
         IN  <<m>> \o SortedSeq(S \ {m})

RECURSIVE ConcatAll(_)
ConcatAll(seqs) == IF seqs = <<>> THEN <<>> ELSE Head(seqs) \o ConcatAll(Tail(seqs))

Range(s) == {s[i] : i \in 1..Len(s)}

unique(s) == SortedSeq(Range(s))

\* FactorTimeArray.__init__ (static defaults to zeros_like(arrays[0])).
FactorTimeArray(cls, factors, arrays, static) ==
    IF \E i \in 1..Len(factors) : IsErr(factors[i])
    THEN factors[CHOOSE i \in 1..Len(factors) : IsErr(factors[i])]
    ELSE IF IsErr(arrays) THEN arrays
    ELSE IF IsErr(static) THEN static
    ELSE [kind |-> cls, factors |-> factors, arrays |-> arrays,
          n |-> arrays.shape[Len(arrays.shape)], static |-> static]

\* PWCTimeArray.__init__: FactorTimeArray.__init__, then the merged times.
PWCTimeArray(factors, arrays, static) ==
    LET base == FactorTimeArray("PWCTimeArray", factors, arrays, static)
    IN  IF IsErr(base) THEN base
        ELSE [kind |-> base.kind, factors |-> base.factors, arrays |-> base.arrays,
              n |-> base.n, static |-> base.static,
              times |-> unique(ConcatAll([i \in 1..Len(factors) |-> factors[i].times]))]

ModulatedTimeArray(factors, arrays, static) ==
    FactorTimeArray("ModulatedTimeArray", factors, arrays, static)

\* self.__class__(factors, arrays, static=static)
SameClass(self, factors, arrays, static) ==
    IF self.kind = "PWCTimeArray" THEN PWCTimeArray(factors, arrays, static)
    ELSE ModulatedTimeArray(factors, arrays, static)

IsComposite(v) == PyType(v) \in {"PWCTimeArray", "ModulatedTimeArray"}
IsConstant(v) == PyType(v) = "ConstantTimeArray"
IsCallableTA(v) == PyType(v) = "CallableTimeArray"

\* -------------------------------------------------------------- properties
\* Python's tuple(*args): at most one argument.
PyTupleCall(args) ==
    IF Len(args) = 0 THEN [dims |-> <<>>]
    ELSE IF Len(args) = 1 THEN [dims |-> args[1]]
    ELSE Raise("TypeError: tuple expected at most 1 argument")

\* The `shape` property; [dims |-> tuple] or the exception it raises.
TimeArray_shape(self) ==
    IF IsConstant(self) THEN [dims |-> self.x.shape]
    ELSE IF IsCallableTA(self) THEN [dims |-> self.f0.shape]
    ELSE PyTupleCall(<<Factor_shape(self.factors[1]), self.n, self.n>>)

\* The `ndim` property: len(self.shape).
TimeArray_ndim(self) ==
    LET sh == TimeArray_shape(self)
    IN  IF IsErr(sh) THEN sh ELSE [value |-> Len(sh.dims)]

\* The `dtype` property.
TimeArray_dtype(self) ==
    IF IsConstant(self) THEN [value |-> self.x.dtype]
    ELSE IF IsCallableTA(self) THEN [value |-> self.f0.dtype]
    ELSE [value |-> self.arrays.dtype]

\* -------------------------------------------------------------- __call__
ConstantTimeArray_call(self, t) == self.x

CallableTimeArray_call(self, t) == Reshape(self.f[t], self.f0.shape)

FactorTimeArray_call(self, t) ==
    LET stacked == Stack([i \in 1..Len(self.factors) |-> Factor_call(self.factors[i], t)])
        values == IF IsErr(stacked) THEN stacked
                  ELSE Reshape(stacked, stacked.shape \o <<1, 1>>)
    IN  Add(SumAxis3(Mul(values, self.arrays)), self.static)

\* self(t); a plain array evaluates to itself.
Call(self, t) ==
    IF IsConstant(self) THEN ConstantTimeArray_call(self, t)
    ELSE IF IsCallableTA(self) THEN CallableTimeArray_call(self, t)
    ELSE IF IsComposite(self) THEN FactorTimeArray_call(self, t)
    ELSE self

\* ------------------------------------------------------- reshape, negate
ConstantTimeArray_reshape(self, args) == ConstantTimeArray(Reshape(self.x, args))

\* f is kept as it is: only f0 records the new shape.
CallableTimeArray_reshape(self, args) ==
    CallableTimeArray(self.f, Reshape(self.f0, args))

\* args[:-2] reshapes every factor; arrays and static are kept.
FactorTimeArray_reshape(self, args) ==
    LET batch == SubSeq(args, 1, Len(args) - 2)
    IN  SameClass(self,
                  [i \in 1..Len(self.factors) |-> Factor_reshape(self.factors[i], batch)],
                  self.arrays, self.static)

TimeArray_reshape(self, args) ==
    IF IsConstant(self) THEN ConstantTimeArray_reshape(self, args)
    ELSE IF IsCallableTA(self) THEN CallableTimeArray_reshape(self, args)
    ELSE FactorTimeArray_reshape(self, args)

ConstantTimeArray_neg(self) == ConstantTimeArray(Negate(self.x))

CallableTimeArray_neg(self) ==
    CallableTimeArray([t \in Times |-> Negate(self.f[t])], Negate(self.f0))

FactorTimeArray_neg(self) ==
    SameClass(self, self.factors, Negate(self.arrays), Negate(self.static))

\* -y for an array or a TimeArray.
PyNeg(y) ==
    IF IsErr(y) THEN y
    ELSE IF IsConstant(y) THEN ConstantTimeArray_neg(y)
    ELSE IF IsCallableTA(y) THEN CallableTimeArray_neg(y)
    ELSE IF IsComposite(y) THEN FactorTimeArray_neg(y)
    ELSE Negate(y)

\* ------------------------------------------------------------------ __add__
ConstantTimeArray_add(self, y) ==
    IF IsArrayLike(y) THEN ConstantTimeArray(Add(self.x, y))
    ELSE IF IsConstant(y) THEN ConstantTimeArray(Add(self.x, y.x))
    ELSE NotImplemented

CallableTimeArray_add(self, y) ==
    IF IsArrayLike(y)
    THEN CallableTimeArray([t \in Times |-> Add(self.f[t], y)], Add(self.f0, y))
    ELSE IF IsConstant(y)
    THEN CallableTimeArray([t \in Times |-> Add(self.f[t], y.x)], Add(self.f0, y.x))
    ELSE IF IsCallableTA(y)
    THEN CallableTimeArray([t \in Times |-> Add(self.f[t], y.f[t])], Add(self.f0, y.f0))
    ELSE NotImplemented

\* FactorTimeArray.__add__ with the added value stored as the static residual
\* instead of added to it.
FactorTimeArray_add_overwrite(self, y) ==
    IF IsArrayLike(y)
    THEN SameClass(self, self.factors, self.arrays, Add(ZerosLike(self.static), y))
    ELSE IF IsConstant(y)
    THEN SameClass(self, self.factors, self.arrays, Add(ZerosLike(self.static), y.x))
    ELSE IF PyType(y) = self.kind
    THEN SameClass(self, self.factors \o y.factors,
                   Concatenate(self.arrays, y.arrays), Add(self.static, y.static))
    ELSE NotImplemented

FactorTimeArray_add(self, y) ==
    IF IsArrayLike(y)
    THEN SameClass(self, self.factors, self.arrays, Add(self.static, y))
    ELSE IF IsConstant(y)
    THEN SameClass(self, self.factors, self.arrays, Add(self.static, y.x))
    ELSE IF PyType(y) = self.kind
    THEN SameClass(self, self.factors \o y.factors,
                   Concatenate(self.arrays, y.arrays), Add(self.static, y.static))
    ELSE NotImplemented

\* type(self).__add__(self, y)
TimeArray_add(self, y) ==
    IF IsConstant(self) THEN ConstantTimeArray_add(self, y)
    ELSE IF IsCallableTA(self) THEN CallableTimeArray_add(self, y)
    ELSE FactorTimeArray_add(self, y)

\* TimeArray.__radd__: `return self + y`, reached when y is an array (its own
\* __add__ defers to an operand it does not know) or when y.__add__(self)
\* returned NotImplemented.  The expression self + y calls self.__add__(y);
\* when that is NotImplemented too, Python reflects to y.__radd__(self), which
\* is the expression y + self, whose __add__ has already declined and which
\* reflects back here: the two never stop calling each other.
TimeArray_radd(self, y) ==
    IF TimeArray_add(self, y) # NotImplemented THEN TimeArray_add(self, y)
    ELSE Raise("RecursionError")

\* The expression a + b with a TimeArray on one side at least: a.__add__(b),
\* then on NotImplemented b.__radd__(a) when b is of another type that
\* defines it, else TypeError.
PyAdd(a, b) ==
    IF IsErr(a) THEN a ELSE IF IsErr(b) THEN b
    ELSE IF ~IsTimeArray(a) THEN TimeArray_radd(b, a)
    ELSE IF TimeArray_add(a, b) # NotImplemented THEN TimeArray_add(a, b)
    ELSE IF ~IsTimeArray(b) \/ PyType(b) = PyType(a)
    THEN Raise("TypeError: unsupported operand type(s) for +")
    ELSE TimeArray_radd(b, a)

\* TimeArray.__sub__: self + (-y).
TimeArray_sub(self, y) == PyAdd(self, PyNeg(y))

\* TimeArray.__rsub__: y + (-self).
TimeArray_rsub(self, y) == PyAdd(y, PyNeg(self))

\* The expression a - b: a.__sub__(b), or b.__rsub__(a) when a is an array.
PySub(a, b) ==
    IF IsTimeArray(a) THEN TimeArray_sub(a, b) ELSE TimeArray_rsub(b, a)

\* ------------------------------------------------------------ construction
\* get_cdtype(None): the default complex dtype.
get_cdtype(dtype) == IF dtype = "None" THEN "complex64" ELSE dtype

\* check_time_array(times): 1-D, at least 2 entries, strictly increasing.
check_time_array(times) ==
    /\ Len(times.shape) = 1
    /\ Len(times.data) >= 2
    /\ \A i \in 1..(Len(times.data) - 1) : times.data[i] < times.data[i + 1]

\* x(0.0) of a user function: its value at 0, as the type the function returns.
CallAtZero(x) ==
    IF x.returns = "Array" THEN x.f[0] ELSE [py |-> "list", value |-> x.f[0]]

\* array[None, ...]
AddLeadingAxis(a) == Reshape(a, <<1>> \o a.shape)

_factory_constant(x, dtype) == ConstantTimeArray(ToArray(x, dtype))

_factory_callable(x, dtype) ==
    LET f0 == CallAtZero(x)
    IN  IF ~IsArray(f0) THEN Raise("TypeError: callable must return an array")
        ELSE IF f0.dtype # dtype THEN Raise("TypeError: callable dtype mismatch")
        ELSE CallableTimeArray(x.f, f0)

_factory_pwc(x, dtype) ==
    LET rdtype == RealDtype(dtype)
        times == ToArray(x.items[1], rdtype)
        values == ToArray(x.items[2], dtype)
        array == ToArray(x.items[3], dtype)
    IN  IF IsErr(times) THEN times
        ELSE IF ~check_time_array(times) THEN Raise("ValueError: malformed times")
        ELSE IF IsErr(values) THEN values
        ELSE IF values.shape = <<>> THEN Raise("IndexError: tuple index out of range")
        ELSE IF values.shape[1] # Len(times.data) - 1
        THEN Raise("TypeError: PWC values must have shape (len(times)-1, ...)")
        ELSE IF IsErr(array) THEN array
        ELSE IF Len(array.shape) # 2 \/ array.shape[1] # array.shape[2]
        THEN Raise("TypeError: PWC array must be a square matrix")
        ELSE LET arrays == AddLeadingAxis(array)
             IN  PWCTimeArray(<<_PWCFactor(times.data, values)>>, arrays,
                              ZerosLike(TakeFirst(arrays, 0)))

_factory_modulated(x, dtype) ==
    LET rdtype == RealDtype(dtype)
        f == x.items[1]
        f0 == CallAtZero(f)
        array == ToArray(x.items[2], dtype)
    IN  IF ~IsCallable(f) THEN Raise("TypeError: modulated f must be a function")
        ELSE IF ~IsArray(f0) THEN Raise("TypeError: modulated f must return an array")
        ELSE IF f0.dtype \notin {dtype, rdtype} THEN Raise("TypeError: modulated dtype mismatch")
        ELSE IF IsErr(array) THEN array
        ELSE IF Len(array.shape) # 2 \/ array.shape[1] # array.shape[2]
        THEN Raise("TypeError: modulated array must be a square matrix")
        ELSE LET arrays == AddLeadingAxis(array)
             IN  ModulatedTimeArray(<<_ModulatedFactor(f.f, f0)>>, arrays,
                                    ZerosLike(TakeFirst(arrays, 0)))

\* totime with the second test written len(x) >= 2.
totime_two_or_more(x, dtype0) ==
    LET dtype == get_cdtype(dtype0)
    IN  IF IsTuple(x) /\ Len(x.items) >= 2 THEN _factory_modulated(x, dtype)
        ELSE IF IsArrayLike(x) THEN _factory_constant(x, dtype)
        ELSE IF IsCallable(x) THEN _factory_callable(x, dtype)
        ELSE [err |-> "TypeError: unsupported input type", type |-> PyType(x)]

\* totime(x, dtype=dtype): the ordered dispatch on the form of x.
totime(x, dtype0) ==
    LET dtype == get_cdtype(dtype0)
    IN  IF IsTuple(x) /\ Len(x.items) = 3 THEN _factory_pwc(x, dtype)
        ELSE IF IsTuple(x) /\ Len(x.items) = 2 THEN _factory_modulated(x, dtype)
        ELSE IF IsArrayLike(x) THEN _factory_constant(x, dtype)
        ELSE IF IsCallable(x) THEN _factory_callable(x, dtype)
        ELSE [err |-> "TypeError: unsupported input type", type |-> PyType(x)]

\* ------------------------------------------------- Lindbladian evaluator
\* a.adjoint(): the last two axes exchanged (the entries are real).
Adjoint(a) ==
    LET r == Len(a.shape)
        p == a.shape[r - 1]
        q == a.shape[r]
        s == SubSeq(a.shape, 1, r - 2) \o <<q, p>>
    IN  Arr(s, [i \in 1..Prod(s) |->
                LET b == (i - 1) \div (p * q)
                    row == ((i - 1) % (p * q)) \div p
                    col == (i - 1) % p
                IN  a.data[b * p * q + col * q + row + 1]],
            a.dtype)

\* The entry (i, j) of the matrix of x that the batch multi-index m selects,
\* the batch being nb axes long and x broadcast to it.
MatAt(x, nb, m, i, j) ==
    LET r == Len(x.shape)
        off == nb - (r - 2)
        idx == [d \in 1..r |->
                   IF d = r - 1 THEN i
                   ELSE IF d = r THEN j
                   ELSE IF x.shape[d] = 1 THEN 0 ELSE m[d + off]]
    IN  x.data[Ravel(idx, x.shape) + 1]

RECURSIVE DotTo(_, _, _, _, _, _, _)
DotTo(a, b, nb, m, i, j, q) ==
    IF q = 0 THEN 0
    ELSE MatAt(a, nb, m, i, q - 1) * MatAt(b, nb, m, q - 1, j)
         + DotTo(a, b, nb, m, i, j, q - 1)

\* a @ b: matrix product on the last two axes, the leading axes broadcast.
MatMul(a, b) ==
    LET ra == Len(a.shape)
        rb == Len(b.shape)
        batch == BroadcastShapes(SubSeq(a.shape, 1, ra - 2), SubSeq(b.shape, 1, rb - 2))
        nb == Len(batch)
        q == a.shape[ra]
        s == batch \o <<a.shape[ra - 1], b.shape[rb]>>
    IN  IF batch = <<-1>> \/ b.shape[rb - 1] # q THEN Raise("matmul")
        ELSE Arr(s, [i \in 1..Prod(s) |->
                     DotTo(a, b, nb, Unravel(i - 1, s),
                           Unravel(i - 1, s)[nb + 1], Unravel(i - 1, s)[nb + 2], q)],
                 Promote(a.dtype, b.dtype))

\* a.squeeze(0)
Squeeze0(a) == IF a.shape[1] = 1 THEN Arr(Tail(a.shape), a.data, a.dtype) ELSE a

\* 0.5 * a (the inputs keep the entries of a even).
Half(a) == Arr(a.shape, [i \in 1..Len(a.data) |-> a.data[i] \div 2], a.dtype)

\* A complex array: real and imaginary part.
Complex(re, im) == [re |-> re, im |-> im]

\* No entry `sum_no_jump` in the instance's __dict__ yet.
NoCache == [py |-> "absent"]

\* MESolver.__init__: jump_ops[None, ...]
MESolver_init(jump_ops) == AddLeadingAxis(jump_ops)

\* The body of sum_no_jump: (L^dag @ L).squeeze(0).sum(dim=0).
SumLdagL(jump_ops) == SumAxis3(Squeeze0(MatMul(Adjoint(jump_ops), jump_ops)))

\* sum_no_jump as a plain property: the body runs at every read and nothing
\* is stored.
MESolver_sum_no_jump_property(jump_ops, entry, runs) ==
    [value |-> SumLdagL(jump_ops), entry |-> entry, runs |-> runs + 1]

\* functools.cached_property on sum_no_jump: the body runs when the instance
\* holds no value yet and its result is stored; later reads return the stored
\* value.  The result carries the value read, the instance's entry and the
\* number of times the body has run.
MESolver_sum_no_jump(jump_ops, entry, runs) ==
    IF entry # NoCache
    THEN [value |-> entry, entry |-> entry, runs |-> runs]
    ELSE [value |-> SumLdagL(jump_ops), entry |-> SumLdagL(jump_ops), runs |-> runs + 1]

\* @depends_on_H: the decorated method is called as it is.
depends_on_H(result) == result

\* kraus_map(rho, O): sum_k O_k @ rho @ O_k^dag.
kraus_map(rho, O) ==
    LET rho1 == Reshape(rho, <<rho.shape[1], 1>> \o Tail(rho.shape))
    IN  SumAxis3(MatMul(MatMul(O, rho1), Adjoint(O)))

\* H_nh(t) = H(t) - 0.5j * sum_no_jump, with the evaluator's entry and run
\* count after the read of sum_no_jump.
MESolver_H_nh(Ht, jump_ops, entry, runs, t) ==
    LET snj == MESolver_sum_no_jump(jump_ops, entry, runs)
    IN  depends_on_H([value |-> Complex(Ht[t], Negate(Half(snj.value))),
                      entry |-> snj.entry, runs |-> snj.runs])

\* lindbladian(t, rho) = -1j * (H_nh rho - (H_nh rho)^dag) + kraus_map(rho, L).
MESolver_lindbladian(Ht, jump_ops, entry, runs, t, rho) ==
    LET hnh == MESolver_H_nh(Ht, jump_ops, entry, runs, t)
        Xre == MatMul(hnh.value.re, rho)
        Xim == MatMul(hnh.value.im, rho)
        Dre == Add(Xre, Negate(Adjoint(Xre)))
        Dim == Add(Xim, Adjoint(Xim))
        L_rho_Ldag == kraus_map(rho, jump_ops)
    IN  [value |-> Complex(Add(Dim, L_rho_Ldag), Negate(Dre)),
         entry |-> hnh.entry, runs |-> hnh.runs]

\* ------------------------------------------------------------------ inputs
\* The arrays, functions and tuples the operations are applied to.
MatM == Arr(<<2, 2>>, <<1, 2, 3, 4>>, "complex64")
MatI == Arr(<<2, 2>>, <<1, 0, 0, 1>>, "complex64")
NonSquare == Arr(<<1, 2>>, <<1, 2>>, "complex64")
Vec2 == Arr(<<2>>, <<5, 7>>, "complex64")

\* A user function t |-> array of the given shape whose entries move with t.
Fn(shape, dtype, returns) ==
    [py |-> "function", returns |-> returns,
     f |-> [t \in Times |-> Arr(shape, [i \in 1..Prod(shape) |-> t + i], dtype)]]

FnMat == Fn(<<2, 2>>, "complex64", "Array")
FnVec == Fn(<<2>>, "complex64", "Array")
FnScalar == Fn(<<>>, "float32", "Array")
FnReal == Fn(<<2, 2>>, "float32", "Array")
FnList == Fn(<<>>, "complex64", "list")

None == [py |-> "NoneType"]
ListM == [py |-> "list", value |-> MatM]
Tuple(items) == [py |-> "tuple", items |-> items]

T02 == Arr(<<2>>, <<0, 2>>, "float32")
T013 == Arr(<<3>>, <<0, 1, 3>>, "float32")
T123 == Arr(<<3>>, <<1, 2, 3>>, "float32")
T310 == Arr(<<3>>, <<3, 1, 0>>, "float32")
T0 == Arr(<<1>>, <<0>>, "float32")

V1 == Arr(<<1>>, <<2>>, "complex64")
V2 == Arr(<<2>>, <<2, 3>>, "complex64")
V21 == Arr(<<2, 1>>, <<2, 3>>, "complex64")
V12 == Arr(<<1, 2>>, <<2, 3>>, "complex64")
V0 == Arr(<<>>, <<2>>, "complex64")

\* PWC inputs (times, values, array).
PWCInputs ==
    { Tuple(<<T02, V1, MatM>>), Tuple(<<T013, V2, MatM>>), Tuple(<<T123, V2, MatI>>),
      Tuple(<<T013, V21, MatM>>), Tuple(<<T013, V12, MatM>>) }

ModulatedInputs == { Tuple(<<FnScalar, MatM>>), Tuple(<<FnVec, MatI>>) }

\* The inputs a TimeArray is built from before the algebra is applied to it.
AlgebraInputs == PWCInputs \cup ModulatedInputs \cup {MatM, FnMat, FnVec}

\* The right operands of the algebra: arrays and TimeArrays.
Operands ==
    {MatI, Vec2} \cup
    { totime(x, "None") : x \in { MatM, FnMat, FnVec, Tuple(<<T123, V2, MatI>>),
                                  Tuple(<<T013, V21, MatM>>), Tuple(<<FnScalar, MatM>>) } }

\* The shapes reshape is asked for.
ReshapeArgs == { <<2, 1>>, <<1, 2, 2>>, <<1, 1, 2, 2>> }

\* The elements of the tuples given to totime.
TupleItems == { T013, V2, V21, MatM, NonSquare, FnScalar, FnList, None }

\* Everything totime is given.
TotimeInputs ==
    { Tuple(<<>>) } \cup { Tuple(<<a>>) : a \in TupleItems }
    \cup { Tuple(<<a, b>>) : a \in TupleItems, b \in {MatM, NonSquare, FnScalar, None} }
    \cup { Tuple(<<a, b, c>>) : a \in {T013, T310, T0, MatM, FnScalar, None},
                                b \in {V2, V21, V12, V0, FnScalar},
                                c \in {MatM, NonSquare, None} }
    \cup { Tuple(<<T013, V2, MatM, MatM>>) }
    \cup { MatM, Vec2, ListM, FnMat, FnReal, FnList, None, [py |-> "str"] }

Dtypes == { "None", "complex64", "float32" }

\* The jump operators, Hamiltonians and density matrices of the evaluator.
JumpOpsInputs ==
    { Arr(<<1, 2, 2>>, <<0, 2, 0, 0>>, "complex64"),
      Arr(<<2, 2, 2>>, <<0, 2, 0, 0, 2, 0, 0, -2>>, "complex64"),
      Arr(<<0, 2, 2>>, <<>>, "complex64") }

HamiltonianInputs ==
    { [t \in Times |-> Arr(<<1, 1, 2, 2>>, <<t, 1, 1, -t>>, "complex64")],
      [t \in Times |-> Arr(<<1, 1, 2, 2>>, <<0, 1, 1, 0>>, "complex64")] }

RhoInputs ==
    { Arr(<<1, 2, 2>>, <<1, 0, 0, 0>>, "complex64"),
      Arr(<<1, 2, 2>>, <<1, 1, 1, 1>>, "complex64") }

\* -------------------------------------------------------------------- state
VARIABLES
    ta,      \* the TimeArray under construction, or the exception raised
    src,     \* the input totime was given
    dt,      \* the dtype argument totime was given
    op,      \* the last operation: "totime", "add", "radd", "sub", "rsub", "neg", "reshape"
    lhs,     \* the left operand of the last binary operation (the receiver of a unary one)
    rhs,     \* the right operand of the last binary operation
    nops,    \* the number of algebraic operations applied so far
    jump_ops, \* MESolver.jump_ops, (1, m, n, n)
    H,        \* the Hamiltonian of the evaluator, t |-> (b_H, 1, n, n)
    cached,   \* the instance's entry for sum_no_jump, NoCache before the first read
    nruns,    \* how many times the body of sum_no_jump has run
    ncalls,   \* how many evaluator calls have been made
    ret       \* what the last evaluator call returned

taVars == <<ta, src, dt, op, lhs, rhs, nops>>
meVars == <<jump_ops, H, cached, nruns, ncalls, ret>>
vars == <<ta, src, dt, op, lhs, rhs, nops, jump_ops, H, cached, nruns, ncalls, ret>>

\* The evaluator, not constructed.
NoSolver ==
    /\ jump_ops = None /\ H = None /\ cached = NoCache
    /\ nruns = 0 /\ ncalls = 0 /\ ret = None

\* The TimeArray algebra, not started.
NoTimeArray ==
    /\ ta = None /\ src = None /\ dt = "None" /\ op = "none"
    /\ lhs = None /\ rhs = None /\ nops = 0

\* ------------------------------------------------------------------ actions
\* ta = totime(x, dtype=d)
Construct(x, d) ==
    /\ ta' = totime(x, d)
    /\ src' = x
    /\ dt' = d
    /\ op' = "totime"
    /\ lhs' = None
    /\ rhs' = None
    /\ nops' = 0
    /\ UNCHANGED meVars

CanOperate == ~IsErr(ta) /\ nops < MaxOps

\* ta = ta + y
DoAdd(y) ==
    /\ CanOperate
    /\ ta' = PyAdd(ta, y)
    /\ op' = "add" /\ lhs' = ta /\ rhs' = y /\ nops' = nops + 1
    /\ UNCHANGED <<src, dt, meVars>>

\* ta = y + ta
DoRAdd(y) ==
    /\ CanOperate
    /\ ta' = PyAdd(y, ta)
    /\ op' = "radd" /\ lhs' = y /\ rhs' = ta /\ nops' = nops + 1
    /\ UNCHANGED <<src, dt, meVars>>

\* ta = ta - y
DoSub(y) ==
    /\ CanOperate
    /\ ta' = PySub(ta, y)
    /\ op' = "sub" /\ lhs' = ta /\ rhs' = y /\ nops' = nops + 1
    /\ UNCHANGED <<src, dt, meVars>>

\* ta = y - ta
DoRSub(y) ==
    /\ CanOperate
    /\ ta' = PySub(y, ta)
    /\ op' = "rsub" /\ lhs' = y /\ rhs' = ta /\ nops' = nops + 1
    /\ UNCHANGED <<src, dt, meVars>>

\* ta = -ta
DoNeg ==
    /\ CanOperate
    /\ ta' = PyNeg(ta)
    /\ op' = "neg" /\ lhs' = ta /\ rhs' = None /\ nops' = nops + 1
    /\ UNCHANGED <<src, dt, meVars>>

\* ta = ta.reshape(*args)
DoReshape(args) ==
    /\ CanOperate
    /\ ta' = TimeArray_reshape(ta, args)
    /\ op' = "reshape" /\ lhs' = ta /\ rhs' = None /\ nops' = nops + 1
    /\ UNCHANGED <<src, dt, meVars>>

\* The algebra applied to a TimeArray built by totime.
Init ==
    /\ \E x \in AlgebraInputs : ta = totime(x, "None") /\ src = x
    /\ dt = "None"
    /\ op = "totime"
    /\ lhs = None
    /\ rhs = None
    /\ nops = 0
    /\ NoSolver

Next ==
    \/ \E y \in Operands : DoAdd(y)
    \/ \E y \in Operands : DoRAdd(y)
    \/ \E y \in Operands : DoSub(y)
    \/ \E y \in Operands : DoRSub(y)
    \/ DoNeg
    \/ \E args \in ReshapeArgs : DoReshape(args)

Spec == Init /\ [][Next]_vars

\* The construction dispatcher on its own, over every form of input.
InitTotime == NoTimeArray /\ NoSolver

NextTotime == \E x \in TotimeInputs, d \in Dtypes : Construct(x, d)

SpecTotime == InitTotime /\ [][NextTotime]_vars

\* The Lindbladian evaluator, called by an integrator.
\* H_nh(t)
CallHnh(t) ==
    /\ ncalls < MaxCalls
    /\ LET r == MESolver_H_nh(H, jump_ops, cached, nruns, t)
       IN  cached' = r.entry /\ nruns' = r.runs /\ ret' = r.value
    /\ ncalls' = ncalls + 1
    /\ UNCHANGED <<jump_ops, H, taVars>>

\* lindbladian(t, rho)
CallLindbladian(t, rho) ==
    /\ ncalls < MaxCalls
    /\ LET r == MESolver_lindbladian(H, jump_ops, cached, nruns, t, rho)
       IN  cached' = r.entry /\ nruns' = r.runs /\ ret' = r.value
    /\ ncalls' = ncalls + 1
    /\ UNCHANGED <<jump_ops, H, taVars>>

InitME ==
    /\ NoTimeArray
    /\ jump_ops \in { MESolver_init(L) : L \in JumpOpsInputs }
    /\ H \in HamiltonianInputs
    /\ cached = NoCache
    /\ nruns = 0
    /\ ncalls = 0
    /\ ret = None

NextME ==
    \/ \E t \in Times : CallHnh(t)
    \/ \E t \in Times, rho \in RhoInputs : CallLindbladian(t, rho)

SpecME == InitME /\ [][NextME]_vars

\* ============================================================ the claims
\* The value the PWC boundary law gives at time t for the input
\* (times, values, M): values[k] * M for times[k] <= t < times[k+1], zero
\* outside [times[0], times[-1]).
PWCLaw(x, t) ==
    LET times == x.items[1].data
        values == x.items[2]
        M == x.items[3]
        k == CHOOSE i \in 0..(Len(times) - 1) :
                 \/ (i = 0 /\ (t < times[1] \/ t >= times[Len(times)]))
                 \/ (i > 0 /\ times[i] <= t /\ t < times[i + 1])
        vk == TakeFirst(values, Max2(k, 1) - 1)
        scaled == Mul(Reshape(vk, vk.shape \o <<1, 1>>), M)
    IN  IF k = 0 THEN ZerosLike(scaled) ELSE scaled

IsPWCInput(x) == IsTuple(x) /\ Len(x.items) = 3

\* C1: a PWC TimeArray built by totime((times, values, M)) evaluates at t to
\* values[k] * M for the k with times[k] <= t < times[k+1], and to zero for
\* t < times[0] and for t >= times[-1], for 1-D values and for the single-batch
\* form values = [[a], [b]] alike.
C1_PWCBoundaryLaw ==
    (op = "totime" /\ IsPWCInput(src) /\ ~IsErr(ta)) =>
        \A t \in Times : /\ ~IsErr(Call(ta, t))
                         /\ Call(ta, t).data = PWCLaw(src, t).data

\* C1 restricted to 1-D values, where the leading and the trailing dimension
\* of values are the same one.
C1_PWCBoundaryLaw1D ==
    (op = "totime" /\ IsPWCInput(src) /\ ~IsErr(ta) /\ Len(src.items[2].shape) = 1) =>
        \A t \in Times : Call(ta, t) = PWCLaw(src, t)

\* C2: dtype, shape and ndim of every TimeArray are defined, the shape of a
\* composite is (factor batch dims..., n, n), and call(t) returns an array of
\* exactly that shape.
C2_PropertiesDefined ==
    IsTimeArray(ta) =>
        /\ ~IsErr(TimeArray_dtype(ta))
        /\ ~IsErr(TimeArray_shape(ta))
        /\ ~IsErr(TimeArray_ndim(ta))
        /\ IsComposite(ta) =>
               TimeArray_shape(ta) = [dims |-> Factor_shape(ta.factors[1]) \o <<ta.n, ta.n>>]
        /\ \A t \in Times : /\ ~IsErr(Call(ta, t))
                            /\ [dims |-> Call(ta, t).shape] = TimeArray_shape(ta)

\* C3: every PWC factor of a successfully constructed PWC TimeArray has
\* nv = len(times) - 1, whatever values array the construction accepted, and a
\* values array whose trailing dimension is not len(times) - 1 is rejected.
C3_FactorNvInvariant ==
    (op = "totime" /\ IsPWCInput(src)) =>
        /\ PyType(ta) = "PWCTimeArray" =>
               \A i \in 1..Len(ta.factors) :
                   ta.factors[i].nv = Len(ta.factors[i].times) - 1
        /\ ( /\ IsArray(src.items[1]) /\ IsArray(src.items[2])
             /\ src.items[2].shape # <<>>
             /\ src.items[2].shape[Len(src.items[2].shape)] # Len(src.items[1].data) - 1 )
           => IsErr(ta)

IsStrictlyIncreasing(s) == \A i \in 1..(Len(s) - 1) : s[i] < s[i + 1]

BothPWC == PyType(lhs) = "PWCTimeArray" /\ PyType(rhs) = "PWCTimeArray"

\* C4: adding two PWC TimeArrays with nf1 and nf2 factors yields a PWC
\* TimeArray with the nf1 + nf2 factors of the operands in order, a stack of
\* nf1 + nf2 base matrices, the sum of the static residuals, and merged times
\* that are the sorted, duplicate-free union of the operands' times; after any
\* sequence of additions.
C4_PWCAddition ==
    (op \in {"add", "radd"} /\ BothPWC) =>
        /\ PyType(ta) = "PWCTimeArray"
        /\ ta.factors = lhs.factors \o rhs.factors
        /\ Len(ta.factors) = Len(lhs.factors) + Len(rhs.factors)
        /\ ta.arrays.shape = <<Len(ta.factors), ta.n, ta.n>>
        /\ ta.arrays.data = lhs.arrays.data \o rhs.arrays.data
        /\ ta.static = Add(lhs.static, rhs.static)
        /\ IsStrictlyIncreasing(ta.times)
        /\ Range(ta.times) = Range(lhs.times) \cup Range(rhs.times)

\* C4's case: a second addition whose operands share a breakpoint.
C4_Witness ==
    /\ op = "add" /\ BothPWC /\ nops = 2
    /\ PyType(ta) = "PWCTimeArray"
    /\ Len(ta.factors) = 3
    /\ Len(ta.times) < Len(lhs.times) + Len(rhs.times)
    /\ Range(rhs.times) \ Range(lhs.times) # {}

\* The composite and the added value of an addition composite + value or
\* value + composite, value being an array or a Constant TimeArray.
IsAddend(v) == IsArray(v) \/ IsConstant(v)
AddendValue(v) == IF IsConstant(v) THEN v.x ELSE v
AbsorbCase ==
    /\ op \in {"add", "radd"}
    /\ \/ (IsComposite(lhs) /\ IsAddend(rhs))
       \/ (IsComposite(rhs) /\ IsAddend(lhs))
AbsorbComposite == IF IsComposite(lhs) THEN lhs ELSE rhs
AbsorbAddend == IF IsComposite(lhs) THEN rhs ELSE lhs

\* C5: adding an array or a Constant TimeArray to a composite, in either
\* operand order and any number of times, keeps the variant, the factor list
\* and the base-matrix stack; the static residual becomes the old one plus the
\* added value, and call(t) is the composite's call(t) plus the added value.
C5_ConstantAbsorption ==
    AbsorbCase =>
        /\ PyType(ta) = PyType(AbsorbComposite)
        /\ ta.factors = AbsorbComposite.factors
        /\ ta.arrays = AbsorbComposite.arrays
        /\ ta.static = Add(AbsorbComposite.static, AddendValue(AbsorbAddend))
        /\ \A t \in Times :
               Call(ta, t) = Add(Call(AbsorbComposite, t), AddendValue(AbsorbAddend))

\* C5's case: a Constant on the left of a composite that has already absorbed
\* a value.
C5_Witness ==
    /\ AbsorbCase /\ op = "radd" /\ IsConstant(lhs) /\ nops = 2
    /\ IsComposite(ta)
    /\ rhs.static # ZerosLike(rhs.static)
    /\ \E t \in Times : ~IsErr(Call(ta, t)) /\ Call(ta, t) # Call(rhs, t)

\* The ordered pairs of variants the add rules list.
ListedPair(a, b) ==
    \/ IsConstant(a) /\ (IsArray(b) \/ IsConstant(b))
    \/ IsCallableTA(a) /\ (IsArray(b) \/ IsConstant(b) \/ IsCallableTA(b))
    \/ IsComposite(a) /\ (IsArray(b) \/ IsConstant(b) \/ PyType(b) = PyType(a))

\* The pairs no __add__ accepts in either order.
DeclinedPair(a, b) ==
    \/ IsCallableTA(a) /\ IsComposite(b)
    \/ IsComposite(a) /\ IsCallableTA(b)
    \/ IsComposite(a) /\ IsComposite(b) /\ PyType(a) # PyType(b)

\* The pairs the left operand declines and the right operand's reflected add
\* accepts.
ReflectedPair(a, b) == IsConstant(a) /\ (IsCallableTA(b) \/ IsComposite(b))

\* The "operation not supported" signal: the TypeError Python raises when
\* both operands have declined.
NotSupported(r) == IsErr(r) /\ r.err = "TypeError: unsupported operand type(s) for +"

\* The reflected adds of both operands calling each other without end.
Recursed(r) == IsErr(r) /\ r.err = "RecursionError"

IsAddition == op \in {"add", "radd"} /\ IsTimeArray(lhs)

\* C6: A + B yields a result only for the listed pairs and signals
\* "operation not supported", producing no TimeArray, for every other ordered
\* pair of variants.
C6_OnlyListedPairs ==
    (IsAddition /\ IsTimeArray(rhs) /\ ~ListedPair(lhs, rhs)) => NotSupported(ta)

\* What A + B does for each ordered pair: the pairs no __add__ accepts end in
\* a RecursionError, the listed pairs give the left operand's variant, and a
\* Constant on the left of a Callable or of a composite gives the right
\* operand's variant.
PairsAsCoded ==
    IsAddition =>
        /\ DeclinedPair(lhs, rhs) <=> Recursed(ta)
        /\ DeclinedPair(lhs, rhs) \/ ListedPair(lhs, rhs) \/ ReflectedPair(lhs, rhs)
        /\ (ListedPair(lhs, rhs) /\ IsTimeArray(ta)) => PyType(ta) = PyType(lhs)
        /\ ReflectedPair(lhs, rhs) => PyType(ta) = PyType(rhs)

\* C7: for A and B with A + B supported, (A - B).call(t) = A.call(t) - B.call(t)
\* for all t, in the direct and in the reversed form, for every variant of A.
C7_Subtraction ==
    (op \in {"sub", "rsub"} /\ ~IsErr(PyAdd(lhs, rhs))) =>
        \A t \in Times : Call(ta, t) = Add(Call(lhs, t), Negate(Call(rhs, t)))

\* C7 for operands that come straight from totime and whose call(t) values
\* have one shape.
C7_SubtractionFresh ==
    (op \in {"sub", "rsub"} /\ nops = 1 /\ ~IsErr(PyAdd(lhs, rhs))
       /\ \A t \in Times : ~IsErr(Call(lhs, t)) /\ ~IsErr(Call(rhs, t))
                           /\ Call(lhs, t).shape = Call(rhs, t).shape) =>
        \A t \in Times : Call(ta, t) = Add(Call(lhs, t), Negate(Call(rhs, t)))

\* What totime may answer for each form of input.
PWCErrors ==
    { "TypeError: not convertible to an array", "ValueError: malformed times",
      "IndexError: tuple index out of range",
      "TypeError: PWC values must have shape (len(times)-1, ...)",
      "TypeError: PWC array must be a square matrix" }
ModulatedErrors ==
    { "TypeError: modulated f must be a function",
      "TypeError: modulated f must return an array",
      "TypeError: modulated dtype mismatch",
      "TypeError: not convertible to an array",
      "TypeError: modulated array must be a square matrix" }
CallableErrors ==
    { "TypeError: callable must return an array", "TypeError: callable dtype mismatch" }

VariantOrError(kind, errors) ==
    \/ PyType(ta) = kind
    \/ IsErr(ta) /\ ta.err \in errors

\* C8: totime goes by the ordered rule 3-tuple, 2-tuple, array-like, callable;
\* any other input raises the unsupported-input-type error naming its type.
\* The length of a tuple alone selects the construction, so that every input
\* gives one variant or one construction error of that variant.
C8_Dispatch ==
    op = "totime" =>
        IF IsTuple(src) /\ Len(src.items) = 3
        THEN VariantOrError("PWCTimeArray", PWCErrors)
        ELSE IF IsTuple(src) /\ Len(src.items) = 2
        THEN VariantOrError("ModulatedTimeArray", ModulatedErrors)
        ELSE IF PyType(src) \in {"Array", "list"}
        THEN PyType(ta) = "ConstantTimeArray"
        ELSE IF PyType(src) = "function"
        THEN VariantOrError("CallableTimeArray", CallableErrors)
        ELSE ta = [err |-> "TypeError: unsupported input type", type |-> PyType(src)]

\* C8's case: a tuple of length 4 is refused with the unsupported-input-type
\* error.
C8_Witness ==
    /\ op = "totime" /\ IsTuple(src) /\ Len(src.items) = 4
    /\ IsErr(ta) /\ ta.err = "TypeError: unsupported input type" /\ ta.type = "tuple"

\* C10: a Callable made by reshape and add evaluates without error at every t,
\* to an array of its declared shape (that of f0) that is the broadcast sum of
\* the operands' call(t).
C10_ReshapeThenAdd ==
    (op = "add" /\ IsCallableTA(lhs) /\ IsCallableTA(ta)) =>
        \A t \in Times : /\ ~IsErr(Call(ta, t))
                         /\ Call(ta, t).shape = ta.f0.shape
                         /\ Call(ta, t) = Add(Call(lhs, t), Call(rhs, t))

\* C10 without a reshape before the add.
C10_AddFresh ==
    (op = "add" /\ nops = 1 /\ IsCallableTA(lhs) /\ IsCallableTA(ta)) =>
        \A t \in Times : /\ ~IsErr(Call(ta, t))
                         /\ Call(ta, t).shape = ta.f0.shape
                         /\ Call(ta, t) = Add(Call(lhs, t), Call(rhs, t))

\* C9: over any sequence of H_nh and lindbladian calls the body of sum_no_jump
\* runs at most once, on first use; once a value is stored every later call
\* reuses it and it never changes; jump_ops and H never change.
C9_SumNoJumpCachedOnce ==
    [][ /\ nruns' <= 1
        /\ cached' = SumLdagL(jump_ops)
        /\ cached # NoCache => (cached' = cached /\ nruns' = nruns)
        /\ cached = NoCache => nruns' = 1
        /\ jump_ops' = jump_ops /\ H' = H ]_vars

\* C9's case: a later call found the value stored by the first one.
C9_Witness == ncalls >= 2 /\ nruns = 1 /\ cached # NoCache /\ "re" \in DOMAIN ret
=============================================================================
